---- MODULE Spec2Model ----
(***************************************************************************)
(* A state-machine model of fm4tlp/models/jodie.py: the JODIE temporal     *)
(* link-prediction model (memory module, time embedding, link predictor    *)
(* and the optional structural-feature mapper).                            *)
(*                                                                         *)
(* Tensors are finite sequences (1-based here, holding the 0-based index   *)
(* values the code computes).  The neural sub-modules that live in other   *)
(* files (TGNMemory, TimeEmbedding, LinkPredictor, StructMapper) are       *)
(* collaborators: the memory is a per-node table, the others are           *)
(* uninterpreted (their output is a tagged tuple of their inputs).         *)
(***************************************************************************)
EXTENDS Integers, Sequences, FiniteSets

\* ---------------------------------------------------------------- bounds

TotalNumNodes == 2      \* total_num_nodes given to the constructor
MaxBatch == 1           \* edges in one batch
MaxLen == 2             \* length of the n_id given to get_memory_embeddings
MaxTime == 0            \* timestamps are 0..MaxTime
MaxEmb == 1             \* a memory embedding is one of 0..MaxEmb
MaxHidden == 1          \* |config.structural_mapping_hidden_dim| <= MaxHidden
MaxFeatDim == 0         \* structural_feature_dim is 0..MaxFeatDim

Nodes == 0 .. (TotalNumNodes - 1)
Time == 0 .. MaxTime
Emb == 0 .. MaxEmb
HiddenDims == (0 - MaxHidden) .. MaxHidden
None == "None"

\* an optional tensor: NoneT when the argument is None, Some(x) otherwise
NoneT == <<>>
Some(x) == <<x>>
Get(o) == o[1]

VARIABLES
  structural_mapping_hidden_dim, \* self._config.structural_mapping_hidden_dim
  structural_feature_mean,       \* self._structural_feature_mean
  structural_feature_std,        \* self._structural_feature_std
  model_components,              \* self._model_components: key -> module
  optimizer_params,              \* modules whose parameters self._optimizer holds
  struct_mapper,                 \* self._struct_mapper, or None when never set
  criterion_struct,              \* self._criterion_struct, or None when never set
  training,                      \* module -> its train/eval flag
  grads,                         \* gradients: "none", "zero" or "computed"
  memory,                        \* self._memory.memory: node -> embedding
  last_update,                   \* self._memory.last_update: node -> time
  assoc,                         \* self._assoc: global node id -> local index
  checkpoint,                    \* the file at model_path, or None
  ret                            \* the last call: its name, inputs and outcome

vars == <<structural_mapping_hidden_dim, structural_feature_mean,
          structural_feature_std, model_components, optimizer_params,
          struct_mapper, criterion_struct, training, grads, memory,
          last_update, assoc, checkpoint, ret>>

\* the configuration and the wiring, which only construction writes
wiring == <<structural_mapping_hidden_dim, model_components, optimizer_params,
            struct_mapper, criterion_struct>>
stats == <<structural_feature_mean, structural_feature_std>>
memstate == <<memory, last_update>>

\* ------------------------------------------------------- tensor helpers

\* s[i] for a 0-based index i
At(s, i) == s[i + 1]

Range(s) == {s[i] : i \in 1 .. Len(s)}

SetMin(S) == CHOOSE m \in S : \A x \in S : m <= x

RECURSIVE SortedSeq(_)
SortedSeq(S) == IF S = {} THEN <<>>
                ELSE <<SetMin(S)>> \o SortedSeq(S \ {SetMin(S)})

\* 0-based position of value v in the duplicate-free sequence s
IndexOf(s, v) == (CHOOSE i \in 1 .. Len(s) : s[i] = v) - 1

\* torch.unique(x, return_inverse=True, return_counts=True)
Unique(x) ==
  LET n_id == SortedSeq(Range(x))
  IN [n_id |-> n_id,
      n_idx |-> [i \in 1 .. Len(x) |-> IndexOf(n_id, x[i])],
      n_counts |-> [k \in 1 .. Len(n_id) |->
                      Cardinality({i \in 1 .. Len(x) : x[i] = n_id[k]})]]

\* the indices torch.sort(x, stable=True) returns (0-based)
StableArgSort(x) ==
  [k \in 1 .. Len(x) |->
     (CHOOSE p \in 1 .. Len(x) :
        Cardinality({q \in 1 .. Len(x) :
                       x[q] < x[p] \/ (x[q] = x[p] /\ q < p)}) = k - 1) - 1]

RECURSIVE SumTo(_, _)
SumTo(s, k) == IF k = 0 THEN 0 ELSE s[k] + SumTo(s, k - 1)

\* torch.cat(([0], counts.cumsum(0)[:-1]))
ShiftedCumSum(counts) ==
  <<0>> \o [k \in 1 .. (Len(counts) - 1) |-> SumTo(counts, k)]

\* t.repeat(k)
Repeat(t, k) == [i \in 1 .. (k * Len(t)) |-> t[((i - 1) % Len(t)) + 1]]

\* x[idx] for a sequence idx of 0-based indices
Gather(x, idx) == [i \in 1 .. Len(idx) |-> At(x, idx[i])]

\* sequences over S of length lo..hi
SeqsOf(S, lo, hi) == UNION {[1 .. n -> S] : n \in lo .. hi}

\* ------------------------------------------------- collaborator modules

MEMORY == "TGNMemory"
GNN == "TimeEmbedding"
LINK_PRED == "LinkPredictor"
STRUCT_MAPPER == "StructMapper"

\* self._memory(n_id): the memory rows and last-update times of n_id
MemoryForward(n_id) ==
  [z |-> [i \in 1 .. Len(n_id) |-> memory[n_id[i]]],
   last_update |-> [i \in 1 .. Len(n_id) |-> last_update[n_id[i]]]]

\* the event that decides the state of node n: the latest one it takes part in
LastEvent(n, src, dst, t) ==
  CHOOSE i \in 1 .. Len(src) :
    /\ n \in {src[i], dst[i]}
    /\ \A j \in 1 .. Len(src) :
         n \in {src[j], dst[j]} => (t[j] < t[i] \/ (t[j] = t[i] /\ j <= i))

\* self._memory.update_state(src, dst, t, raw_msg) with the identity message
\* and the last-message aggregator
UpdateState(src, dst, t, raw_msg) ==
  LET touched == Range(src) \cup Range(dst)
  IN [memory |-> [n \in Nodes |->
                    IF n \in touched THEN raw_msg[LastEvent(n, src, dst, t)]
                    ELSE memory[n]],
      last_update |-> [n \in Nodes |->
                    IF n \in touched THEN t[LastEvent(n, src, dst, t)]
                    ELSE last_update[n]]]

\* self._memory.reset_state(): zero memory, zero last-update times
ResetState == [memory |-> [n \in Nodes |-> 0],
               last_update |-> [n \in Nodes |-> 0]]

\* self._gnn(x, last_update, t): x shifted by x times the projected time gap
TimeEmbedding(x, lu, t) ==
  [i \in 1 .. Len(x) |-> x[i] * (1 + (lu[i] - t[i]))]

\* self._link_pred(z_src, z_dst): one score per edge, a function of its ends
LinkPredictor(z_src, z_dst) ==
  [i \in 1 .. Len(z_src) |-> <<"score", z_src[i], z_dst[i]>>]

\* self._struct_mapper(structral_feat)
StructMapperForward(structral_feat) == <<"mapped", structral_feat>>

\* module.state_dict()
StateDict(module) ==
  IF module = MEMORY
  THEN [module |-> module, memory |-> memory, last_update |-> last_update]
  ELSE [module |-> module, memory |-> <<>>, last_update |-> <<>>]

\* ------------------------------------------------------------ the model

\* has_struct_mapper with the comparison off by one: a hidden dim of 0 counts
has_struct_mapper_ge == structural_mapping_hidden_dim >= 0

\* JODIE.has_struct_mapper
has_struct_mapper == structural_mapping_hidden_dim > 0

\* _initialize_model without its self._model_components.update(...) line
InitializeModelUnregistered(hidden_dim) ==
  LET base == [k \in {"memory", "gnn", "link_pred"} |->
                 IF k = "memory" THEN MEMORY
                 ELSE IF k = "gnn" THEN GNN ELSE LINK_PRED]
  IN IF hidden_dim > 0
     THEN [model_components |-> base,
           optimizer_params |-> {MEMORY, GNN, LINK_PRED} \cup {STRUCT_MAPPER},
           struct_mapper |-> STRUCT_MAPPER,
           criterion_struct |-> "MSELoss"]
     ELSE [model_components |-> base,
           optimizer_params |-> {MEMORY, GNN, LINK_PRED},
           struct_mapper |-> None,
           criterion_struct |-> None]

\* JODIE._initialize_model: the wiring it builds for a given hidden dim
InitializeModel(hidden_dim) ==
  LET base == [k \in {"memory", "gnn", "link_pred"} |->
                 IF k = "memory" THEN MEMORY
                 ELSE IF k = "gnn" THEN GNN ELSE LINK_PRED]
  IN IF hidden_dim > 0
     THEN [model_components |->
             [k \in DOMAIN base \cup {"struct_mapper"} |->
                IF k = "struct_mapper" THEN STRUCT_MAPPER ELSE base[k]],
           optimizer_params |-> {MEMORY, GNN, LINK_PRED} \cup {STRUCT_MAPPER},
           struct_mapper |-> STRUCT_MAPPER,
           criterion_struct |-> "MSELoss"]
     ELSE [model_components |-> base,
           optimizer_params |-> {MEMORY, GNN, LINK_PRED},
           struct_mapper |-> None,
           criterion_struct |-> None]

Init ==
  /\ structural_mapping_hidden_dim \in HiddenDims
  /\ \E d \in 0 .. MaxFeatDim :
       /\ structural_feature_mean = [i \in 1 .. d |-> 0]
       /\ structural_feature_std = [i \in 1 .. d |-> 1]
  /\ LET w == InitializeModel(structural_mapping_hidden_dim)
     IN /\ model_components = w.model_components
        /\ optimizer_params = w.optimizer_params
        /\ struct_mapper = w.struct_mapper
        /\ criterion_struct = w.criterion_struct
        /\ training = [m \in {MEMORY, GNN, LINK_PRED} \cup
                         (IF w.struct_mapper = None THEN {}
                          ELSE {w.struct_mapper}) |-> TRUE]
  /\ grads = "none"
  /\ memory = ResetState.memory
  /\ last_update = ResetState.last_update
  /\ assoc \in [Nodes -> Nodes]      \* torch.empty: whatever was there
  /\ checkpoint = NoneT
  /\ ret = [op |-> "__init__", exc |-> "", args |-> <<>>, value |-> <<>>]

Return(op, args, value) == [op |-> op, exc |-> "", args |-> args, value |-> value]
Raise(op, args, exc) == [op |-> op, exc |-> exc, args |-> args, value |-> <<>>]

\* ----------------------------------------------------- predict_on_edges

\* node_embeddings[a[nodes]], a being self._assoc after the batch's update
Local(node_embeddings, a, nodes) ==
  Gather(node_embeddings, [i \in 1 .. Len(nodes) |-> a[nodes[i]]])

\* predict_on_edges never computing the negative prediction
YPredNegDropped(node_embeddings, a, source_nodes, target_nodes_neg) ==
  NoneT

\* the negative-edge half of predict_on_edges: None unless target_nodes_neg
\* is given
YPredNeg(node_embeddings, a, source_nodes, target_nodes_neg) ==
  IF target_nodes_neg # NoneT
  THEN Some(LinkPredictor(Local(node_embeddings, a, source_nodes),
                          Local(node_embeddings, a, Get(target_nodes_neg))))
  ELSE NoneT

\* JODIE.predict_on_edges, as a function of its inputs and of the state:
\* what it raises (exc), what it leaves in self._assoc, and what it returns.
\* target_nodes_neg and data_t are optional tensors.
PredictOnEdges(source_nodes, target_nodes_pos, target_nodes_neg, data_t) ==
  LET all_nodes == IF target_nodes_neg # NoneT
                   THEN (source_nodes \o target_nodes_pos) \o Get(target_nodes_neg)
                   ELSE source_nodes \o target_nodes_pos
      u == Unique(all_nodes)
      n_id == u.n_id
      assoc1 == [n \in Nodes |->
                   IF n \in Range(n_id) THEN IndexOf(n_id, n) ELSE assoc[n]]
      idx_sorted == StableArgSort(u.n_idx)
      cum_sum == ShiftedCumSum(u.n_counts)
  IN IF \E k \in 1 .. Len(cum_sum) : cum_sum[k] >= Len(idx_sorted)
     THEN [exc |-> "IndexError", assoc |-> assoc1, value |-> <<>>]
     ELSE IF data_t = NoneT
     THEN [exc |-> "AssertionError", assoc |-> assoc1, value |-> <<>>]
     ELSE
       LET first_indices == Gather(idx_sorted, cum_sum)
           all_times == Repeat(Get(data_t), 3)
           node_first_event_timestamps == Gather(all_times, first_indices)
           m == MemoryForward(n_id)
           node_embeddings == TimeEmbedding(m.z, m.last_update,
                                            node_first_event_timestamps)
           y_pred_pos == LinkPredictor(
                           Local(node_embeddings, assoc1, source_nodes),
                           Local(node_embeddings, assoc1, target_nodes_pos))
           y_pred_neg == YPredNeg(node_embeddings, assoc1, source_nodes,
                                  target_nodes_neg)
       IN [exc |-> "", assoc |-> assoc1,
           value |-> [y_pred_pos |-> Some(y_pred_pos),
                      y_pred_neg |-> y_pred_neg]]

predict_on_edges ==
  \E b \in 0 .. MaxBatch :
  \E source_nodes \in [1 .. b -> Nodes], target_nodes_pos \in [1 .. b -> Nodes] :
  \E target_nodes_neg \in {NoneT} \cup {Some(x) : x \in [1 .. b -> Nodes]} :
  \E data_t \in {NoneT} \cup {Some(x) : x \in [1 .. b -> Time]} :
    LET r == PredictOnEdges(source_nodes, target_nodes_pos,
                            target_nodes_neg, data_t)
        args == [neg_given |-> target_nodes_neg # NoneT]
    IN /\ assoc' = r.assoc
       /\ ret' = IF r.exc = "" THEN Return("predict_on_edges", args, r.value)
                 ELSE Raise("predict_on_edges", args, r.exc)
       /\ UNCHANGED <<wiring, stats, training, grads, memstate, checkpoint>>

\* ------------------------------------------------- the other operations

\* JODIE.save_model: every component's state_dict under its key, and the
\* structural-feature mean and std beside it
save_model ==
  /\ checkpoint' = Some([state |-> [k \in DOMAIN model_components |->
                                      StateDict(model_components[k])],
                         structural_feature_mean |-> structural_feature_mean,
                         structural_feature_std |-> structural_feature_std])
  /\ ret' = Return("save_model", <<>>, <<>>)
  /\ UNCHANGED <<wiring, stats, training, grads, memstate, assoc>>

\* what load_model does with the file: the exception, or the state it loads
LoadModel ==
  IF checkpoint = NoneT
  THEN [exc |-> "FileNotFoundError", memory |-> memory,
        last_update |-> last_update,
        structural_feature_mean |-> structural_feature_mean,
        structural_feature_std |-> structural_feature_std]
  ELSE IF ~(DOMAIN model_components \subseteq DOMAIN Get(checkpoint).state)
  THEN [exc |-> "KeyError", memory |-> memory, last_update |-> last_update,
        structural_feature_mean |-> structural_feature_mean,
        structural_feature_std |-> structural_feature_std]
  ELSE [exc |-> "",
        memory |-> Get(checkpoint).state["memory"].memory,
        last_update |-> Get(checkpoint).state["memory"].last_update,
        structural_feature_mean |-> Get(checkpoint).structural_feature_mean,
        structural_feature_std |-> Get(checkpoint).structural_feature_std]

\* JODIE.load_model
load_model ==
  LET r == LoadModel
  IN /\ memory' = r.memory
     /\ last_update' = r.last_update
     /\ structural_feature_mean' = r.structural_feature_mean
     /\ structural_feature_std' = r.structural_feature_std
     /\ ret' = IF r.exc = "" THEN Return("load_model", <<>>, <<>>)
               ELSE Raise("load_model", <<>>, r.exc)
     /\ UNCHANGED <<wiring, training, grads, assoc, checkpoint>>

\* JODIE.optimize: loss.backward(), optimizer.step(), memory.detach()
optimize ==
  /\ grads' = "computed"
  /\ ret' = Return("optimize", <<>>, <<>>)
  /\ UNCHANGED <<wiring, stats, training, memstate, assoc, checkpoint>>

\* JODIE.update_memory: target_nodes_neg, last_neighbor_loader, data unused
update_memory ==
  \E b \in 0 .. MaxBatch :
  \E source_nodes \in [1 .. b -> Nodes], target_nodes_pos \in [1 .. b -> Nodes] :
  \E timestamps \in [1 .. b -> Time], messages \in [1 .. b -> Emb] :
    LET r == UpdateState(source_nodes, target_nodes_pos, timestamps, messages)
    IN /\ memory' = r.memory
       /\ last_update' = r.last_update
       /\ ret' = Return("update_memory", <<>>, <<>>)
       /\ UNCHANGED <<wiring, stats, training, grads, assoc, checkpoint>>

\* JODIE.reset_memory
reset_memory ==
  /\ memory' = ResetState.memory
  /\ last_update' = ResetState.last_update
  /\ ret' = Return("reset_memory", <<>>, <<>>)
  /\ UNCHANGED <<wiring, stats, training, grads, assoc, checkpoint>>

\* the train/eval flags after initialize_train (mode TRUE) or
\* initialize_test (mode FALSE)
SetMode(mode) ==
  [m \in DOMAIN training |->
     IF m \in {MEMORY, GNN, LINK_PRED} THEN mode
     ELSE IF has_struct_mapper /\ m = struct_mapper THEN mode
     ELSE training[m]]

\* JODIE.initialize_train
initialize_train ==
  /\ training' = SetMode(TRUE)
  /\ ret' = Return("initialize_train", <<>>, <<>>)
  /\ UNCHANGED <<wiring, stats, grads, memstate, assoc, checkpoint>>

\* JODIE.initialize_test
initialize_test ==
  /\ training' = SetMode(FALSE)
  /\ ret' = Return("initialize_test", <<>>, <<>>)
  /\ UNCHANGED <<wiring, stats, grads, memstate, assoc, checkpoint>>

\* JODIE.initialize_batch: batch.to(device), optimizer.zero_grad()
initialize_batch ==
  /\ grads' = "zero"
  /\ ret' = Return("initialize_batch", <<>>, <<>>)
  /\ UNCHANGED <<wiring, stats, training, memstate, assoc, checkpoint>>

\* JODIE.compute_loss: the terms of (model_loss, structmap_loss) for a
\* prediction whose y_pred_neg is given or None
ComputeLoss(y_pred_neg_given) ==
  [model_loss |-> IF y_pred_neg_given THEN <<"bce_pos", "bce_neg">>
                  ELSE <<"bce_pos">>,
   structmap_loss |-> IF has_struct_mapper THEN <<"mse_times_alpha">>
                      ELSE <<>>]

compute_loss ==
  \E y_pred_neg_given \in BOOLEAN :
    /\ ret' = Return("compute_loss", y_pred_neg_given,
                     ComputeLoss(y_pred_neg_given))
    /\ UNCHANGED <<wiring, stats, training, grads, memstate, assoc, checkpoint>>

\* JODIE.get_memory_embeddings, as a function of n_id and of the state.  A
\* tensor result is given by its rank and the embedding rows it holds: z has
\* rank 2 and one row per node of n_id, z[0] has rank 1 and holds row 0 alone.
GetMemoryEmbeddings(n_id) ==
  LET z == MemoryForward(n_id).z
  IN IF Len(z) = 0 THEN [exc |-> "IndexError", value |-> <<>>]
     ELSE [exc |-> "", value |-> [ndim |-> 1, rows |-> <<At(z, 0)>>]]

get_memory_embeddings ==
  \E n_id \in SeqsOf(Nodes, 0, MaxLen) :
    LET r == GetMemoryEmbeddings(n_id)
    IN /\ ret' = IF r.exc = ""
                 THEN Return("get_memory_embeddings", n_id, r.value)
                 ELSE Raise("get_memory_embeddings", n_id, r.exc)
       /\ UNCHANGED <<wiring, stats, training, grads, memstate, assoc, checkpoint>>

\* RuntimeError("Struct mapper is not available.")
StructMapperUnavailable == "RuntimeError: Struct mapper is not available."

\* JODIE.predict_memory_embeddings, as a function of structral_feat
PredictMemoryEmbeddings(structral_feat) ==
  IF ~has_struct_mapper
  THEN [exc |-> StructMapperUnavailable, value |-> <<>>]
  ELSE [exc |-> "", value |-> StructMapperForward(structral_feat)]

predict_memory_embeddings ==
  \E structral_feat \in 0 .. MaxEmb :
    LET r == PredictMemoryEmbeddings(structral_feat)
    IN /\ ret' = IF r.exc = ""
                 THEN Return("predict_memory_embeddings", structral_feat, r.value)
                 ELSE Raise("predict_memory_embeddings", structral_feat, r.exc)
       /\ UNCHANGED <<wiring, stats, training, grads, memstate, assoc, checkpoint>>

Next ==
  \/ save_model
  \/ load_model
  \/ optimize
  \/ update_memory
  \/ reset_memory
  \/ initialize_train
  \/ initialize_test
  \/ initialize_batch
  \/ compute_loss
  \/ predict_on_edges
  \/ get_memory_embeddings
  \/ predict_memory_embeddings

Spec == Init /\ [][Next]_vars

\* ----------------------------------------------------------- properties

\* everything but the record of the last call
modelstate == <<wiring, stats, training, grads, memstate, assoc, checkpoint>>

\* C1: whenever predict_on_edges returns, y_pred_pos is not None, and
\* y_pred_neg is None exactly when target_nodes_neg was None (or omitted);
\* when given, the negative prediction has one score per edge of the batch.
C1_YPredNegNoneIffNoNegTargets ==
  (ret.op = "predict_on_edges" /\ ret.exc = "") =>
    /\ ret.value.y_pred_pos # NoneT
    /\ (ret.value.y_pred_neg = NoneT) <=> ~ret.args.neg_given
    /\ ret.args.neg_given =>
         Len(Get(ret.value.y_pred_neg)) = Len(Get(ret.value.y_pred_pos))

\* C1 witness: a non-empty batch predicted with and returned without
\* negative targets.
C1_Witness ==
  /\ ret.op = "predict_on_edges"
  /\ ret.exc = ""
  /\ ~ret.args.neg_given
  /\ ret.value.y_pred_neg = NoneT
  /\ Len(Get(ret.value.y_pred_pos)) > 0

\* C2: every call of predict_memory_embeddings with
\* structural_mapping_hidden_dim <= 0 raises RuntimeError("Struct mapper is
\* not available.") and changes nothing of the model; with hidden_dim > 0 it
\* raises nothing and returns the struct mapper's output for its argument.
C2_PredictMemoryEmbeddingsRaisesIffNoMapper ==
  [][ret'.op = "predict_memory_embeddings" =>
       IF structural_mapping_hidden_dim <= 0
       THEN ret'.exc = StructMapperUnavailable /\ UNCHANGED modelstate
       ELSE /\ ret'.exc = ""
            /\ ret'.value = StructMapperForward(ret'.args)
            /\ UNCHANGED modelstate]_vars

\* C2 witness: the call was made on a model without a struct mapper and
\* raised.
C2_Witness ==
  /\ ret.op = "predict_memory_embeddings"
  /\ structural_mapping_hidden_dim <= 0
  /\ ret.exc = StructMapperUnavailable

\* C3 (the claim as stated): get_memory_embeddings(n_id) returns one memory
\* embedding per node of n_id, in the order of n_id, each the embedding the
\* memory module returns for that node.
C3_OneEmbeddingPerNode ==
  (ret.op = "get_memory_embeddings" /\ ret.exc = "") =>
    /\ Len(ret.value.rows) = Len(ret.args)
    /\ \A i \in 1 .. Len(ret.args) :
         ret.value.rows[i] = MemoryForward(ret.args).z[i]

\* C4: the struct mapper is wired consistently in every reachable state:
\* has_struct_mapper, hidden_dim > 0, the mapper object existing, its being
\* registered under "struct_mapper" in the components, and its parameters
\* being in the optimizer all hold together or not at all; a saved checkpoint
\* has exactly the components' keys; and with hidden_dim <= 0 the components
\* are exactly memory, gnn and link_pred.
C4_StructMapperWiring ==
  LET on == structural_mapping_hidden_dim > 0
  IN /\ has_struct_mapper <=> on
     /\ (struct_mapper # None) <=> on
     /\ ("struct_mapper" \in DOMAIN model_components) <=> on
     /\ on => model_components["struct_mapper"] = struct_mapper
     /\ (STRUCT_MAPPER \in optimizer_params) <=> on
     /\ {MEMORY, GNN, LINK_PRED} \subseteq optimizer_params
     /\ {"memory", "gnn", "link_pred"} \subseteq DOMAIN model_components
     /\ ~on => DOMAIN model_components = {"memory", "gnn", "link_pred"}
     /\ checkpoint # NoneT =>
          DOMAIN Get(checkpoint).state = DOMAIN model_components

\* C4 witness: a model with a struct mapper, saved and loaded back.
C4_Witness ==
  /\ structural_mapping_hidden_dim > 0
  /\ checkpoint # NoneT
  /\ "struct_mapper" \in DOMAIN Get(checkpoint).state
  /\ ret.op = "load_model"
  /\ ret.exc = ""

====
